---- MODULE Spec2Model ----
\* Model of app.py, the US refinanced-debt interest cost calculator: the two
\* FRED lookups (get_fred_rate, get_current_fred_rate) behind st.cache_data,
\* and the Streamlit script that displays the rates and the interest costs.
\*
\* Units.  Rates are in hundredths of a percent (420 is 4.20 %), the precision
\* FRED publishes.  Dates are days since 2025-01-01 (day 0).  The clock is in
\* seconds.  The amount entered in the number_input is in tenths of a billion
\* (format "%.1f").  Money is in millions of dollars.
EXTENDS Integers, Sequences, FiniteSets, TLC

\* ---------------------------------------------------------------- bounds
\* Largest value of the clock, in ticks of TICK seconds.
MaxTicks == 2
\* How many observations the remote publishes in a behaviour of the app.
MaxPublish == 2
\* Number of calendar days the series of the resolver specification spans.
MaxSpan == 8

\* ------------------------------------------------------- program constants
\* Python's None and the float NaN, kept apart from every rate and date
\* (all of which are >= 0 here).
None == -1
NaN == -2

\* HISTORICAL_DATE_STR = "2025-04-01": day 90 of 2025 counted from 0.
HISTORICAL_DATE == 90
\* timedelta(days=7)
LOOKBACK_DAYS == 7
\* @st.cache_data(ttl=3600) and @st.cache_data(ttl=900)
HIST_TTL == 3600
CUR_TTL == 900
\* debt_amount_billions * 1_000_000_000, in millions of dollars per billion.
BILLION == 1000
\* historical_rate / 100: percent to a decimal fraction; a rate in hundredths
\* of a percent is PERCENT * 100 times the fraction.
PERCENT == 100
\* number_input(min_value=1.0, value=100.0), in tenths of a billion.
MIN_VALUE == 10
DEFAULT_VALUE == 1000
\* selectbox(index=3), 0-based.
DEFAULT_INDEX == 3

\* FRED_SERIES: label -> series id.
FRED_SERIES ==
    ("3-Month Treasury Bill" :> "DGS3MO") @@ ("1-Year Treasury" :> "DGS1")
    @@ ("5-Year Treasury" :> "DGS5") @@ ("10-Year Treasury" :> "DGS10")
    @@ ("30-Year Treasury" :> "DGS30")

\* list(FRED_SERIES.keys()), in insertion order.
Options ==
    << "3-Month Treasury Bill", "1-Year Treasury", "5-Year Treasury",
       "10-Year Treasury", "30-Year Treasury" >>

SeriesIds == { FRED_SERIES[k] : k \in DOMAIN FRED_SERIES }

\* ------------------------------------------------------------ environment
\* Seconds per clock tick: half the longer ttl (and twice the shorter one).
TICK == HIST_TTL \div 2
\* The yields the remote publishes, and a missing value ("." in FRED).
Rates == {420, 450}
Published == Rates \cup {NaN}
\* The labels a user may try to pick (the last is not an option of the
\* selectbox), and the series the remote publishes for.
PickLabels == {"10-Year Treasury", "30-Year Treasury", "2-Year Treasury"}
PickSeries == {"DGS10", "DGS30"}
\* What a user may try to type into the number_input, in tenths of a billion.
DebtAttempts == {-10, 0, 10, 1000}

VARIABLES
    remote,     \* series id -> the observations the source holds, by date
    down,       \* the remote source fails every request
    now,        \* the clock, in seconds
    published,  \* how many observations were published so far
    cache,      \* st.cache_data: key -> entry
    last_call,  \* the latest call of a resolver: arguments, result, history
    selected_maturity_name,
    debt_amount_billions,
    pc,
    historical, \* <<historical_rate, historical_rate_date>>
    current,    \* <<current_rate, current_rate_date>>
    page        \* what the run has displayed

envvars == <<remote, down, now, published>>
appvars == <<selected_maturity_name, debt_amount_billions, pc, historical, current, page>>
vars == <<remote, down, now, published, cache, last_call, selected_maturity_name,
          debt_amount_billions, pc, historical, current, page>>

\* ------------------------------------------------------- the remote source
\* Fred.get_series(series_id, observation_start, observation_end): the
\* observations of the series dated within the bounds (None: unbounded), in
\* date order; it raises when the request fails or the series is unknown.
get_series(series_id, observation_start, observation_end) ==
    IF down \/ series_id \notin DOMAIN remote
    THEN [raised |-> TRUE, data |-> <<>>]
    ELSE [raised |-> FALSE,
          data |-> SelectSeq(remote[series_id],
                      LAMBDA o : /\ (observation_start = None \/ o.date >= observation_start)
                                 /\ (observation_end = None \/ o.date <= observation_end))]

\* Series.dropna()
dropna(data) == SelectSeq(data, LAMBDA o : o.value # NaN)

\* The value a resolver returns when it has no observation: (None, None).
NoneNone == <<None, None>>

\* Mutant of LastOrNone: the first observation, data.iloc[0].
FirstOrNone(data) ==
    IF data # <<>>
    THEN <<data[1].value, data[1].date>>
    ELSE NoneNone

\* data.iloc[-1], data.index[-1] when data is not empty, else None, None.
LastOrNone(data) ==
    IF data # <<>>
    THEN <<data[Len(data)].value, data[Len(data)].date>>
    ELSE NoneNone

\* ------------------------------------------------------------ the resolvers
\* Mutants of get_fred_rate: the window ends a day late; the window has no
\* start; the except clause is missing.
get_fred_rate_late_end(series_id, date) ==
    LET resp == get_series(series_id, date - LOOKBACK_DAYS, date + 1)
    IN  IF resp.raised
        THEN [ret |-> NoneNone, error |-> TRUE, uncaught |-> FALSE]
        ELSE [ret |-> LastOrNone(dropna(resp.data)), error |-> FALSE, uncaught |-> FALSE]

get_fred_rate_no_start(series_id, date) ==
    LET resp == get_series(series_id, None, date)
    IN  IF resp.raised
        THEN [ret |-> NoneNone, error |-> TRUE, uncaught |-> FALSE]
        ELSE [ret |-> LastOrNone(dropna(resp.data)), error |-> FALSE, uncaught |-> FALSE]

get_fred_rate_no_except(series_id, date) ==
    LET resp == get_series(series_id, date - LOOKBACK_DAYS, date)
    IN  IF resp.raised
        THEN [ret |-> NoneNone, error |-> FALSE, uncaught |-> TRUE]
        ELSE [ret |-> LastOrNone(dropna(resp.data)), error |-> FALSE, uncaught |-> FALSE]

\* The body of get_fred_rate: ret is what it returns, error whether it
\* called st.error, uncaught whether an exception leaves it (the except
\* clause catches every Exception of the try block).
get_fred_rate(series_id, date) ==
    LET start_date == date - LOOKBACK_DAYS
        end_date == date
        resp == get_series(series_id, start_date, end_date)
    IN  IF resp.raised
        THEN [ret |-> NoneNone, error |-> TRUE, uncaught |-> FALSE]
        ELSE [ret |-> LastOrNone(dropna(resp.data)), error |-> FALSE, uncaught |-> FALSE]

\* The body of get_current_fred_rate.
get_current_fred_rate(series_id) ==
    LET resp == get_series(series_id, None, None)
    IN  IF resp.raised
        THEN [ret |-> NoneNone, error |-> TRUE, uncaught |-> FALSE]
        ELSE [ret |-> LastOrNone(dropna(resp.data)), error |-> FALSE, uncaught |-> FALSE]

\* -------------------------------------------------------- st.cache_data
\* The decorated function's ttl.
Ttl(fname) == IF fname = "get_fred_rate" THEN HIST_TTL ELSE CUR_TTL

\* The cache key: the function and its hashed arguments (_fred_client, whose
\* name starts with an underscore, is not hashed).
CacheKey(fname, series_id, date) == <<fname, series_id, date>>

\* Mutant of Expired: an entry of exactly the ttl's age is still served.
Expired_late(at, ttl, t) == t - at > ttl

\* An entry stored at `at` has expired at time t once it is ttl old.
Expired(at, ttl, t) == t - at >= ttl

\* An entry is served until it expires.
CacheHit(key, ttl) == key \in DOMAIN cache /\ ~Expired(cache[key].at, ttl, now)

Body(fname, series_id, date) ==
    IF fname = "get_fred_rate"
    THEN get_fred_rate(series_id, date)
    ELSE get_current_fred_rate(series_id)

\* A call of a decorated resolver: a hit returns the stored value (and replays
\* the stored st.error), a miss runs the body and stores what it returned; an
\* exception that leaves the body is stored nowhere and reaches the caller.
\* last_call records the call; uncached, fresh and age are history: what the
\* body returns at this moment, whether the remote is as it was when the
\* entry was stored, and the age of the entry served.
CachedCall(fname, series_id, date) ==
    LET key == CacheKey(fname, series_id, date)
        out == Body(fname, series_id, date)
    IN  IF CacheHit(key, Ttl(fname))
        THEN /\ cache' = cache
             /\ last_call' = [fn |-> fname, series_id |-> series_id, date |-> date,
                              hit |-> TRUE, raised |-> FALSE, uncaught |-> FALSE,
                              ret |-> cache[key].value, error |-> cache[key].error,
                              uncached |-> out.ret, fresh |-> cache[key].fresh,
                              age |-> now - cache[key].at]
        ELSE /\ cache' = IF out.uncaught
                         THEN cache
                         ELSE [k \in DOMAIN cache \cup {key} |->
                                 IF k = key
                                 THEN [value |-> out.ret, error |-> out.error,
                                       at |-> now, fresh |-> TRUE]
                                 ELSE cache[k]]
             /\ last_call' = [fn |-> fname, series_id |-> series_id, date |-> date,
                              hit |-> FALSE, raised |-> out.error \/ out.uncaught,
                              uncaught |-> out.uncaught,
                              ret |-> out.ret, error |-> out.error,
                              uncached |-> out.ret, fresh |-> TRUE, age |-> 0]

NoCall ==
    [fn |-> "none", series_id |-> "none", date |-> None, hit |-> FALSE,
     raised |-> FALSE, uncaught |-> FALSE, ret |-> NoneNone, error |-> FALSE, uncached |-> NoneNone,
     fresh |-> TRUE, age |-> 0]

EmptyCache == [k \in {} |-> 0]

\* ------------------------------------------------------------ the script
\* selected_series_id = FRED_SERIES[selected_maturity_name]
selected_series_id == FRED_SERIES[selected_maturity_name]

\* debt_amount = debt_amount_billions * 1_000_000_000, in millions of dollars
\* (debt_amount_billions is in tenths of a billion).
debt_amount == (debt_amount_billions * BILLION) \div 10

\* Mutant of number_input: no min_value.
number_input_no_min(value, typed) == typed

\* st.sidebar.number_input(min_value=1.0): the widget keeps its value when
\* what is typed is below min_value.
number_input(value, typed) == IF typed >= MIN_VALUE THEN typed ELSE value

\* Mutant of interest_cost: the rate is divided by 1000.
interest_cost_per_mille(amount, rate) == (amount * rate) \div (PERCENT * 1000)

\* debt_amount * (rate / 100), rate in hundredths of a percent.
interest_cost(amount, rate) == (amount * rate) \div (PERCENT * 100)

\* Mutant of additional: the operands swapped.
additional_swapped(current_interest_cost, historical_interest_cost) ==
    historical_interest_cost - current_interest_cost

\* additional_cost = current_interest_cost - historical_interest_cost
additional(current_interest_cost, historical_interest_cost) ==
    current_interest_cost - historical_interest_cost

\* delta_color = "inverse" if additional_cost < 0 else "normal"
delta_color(additional_cost) == IF additional_cost < 0 THEN "inverse" ELSE "normal"

Blank == [kind |-> "blank"]

\* with col1 / with col2: the metric of a rate, or st.error.
RateColumn(rate_and_date) ==
    IF rate_and_date[1] # None
    THEN [kind |-> "metric", rate |-> rate_and_date[1], date |-> rate_and_date[2]]
    ELSE [kind |-> "error"]

\* with col3: the change in yield, or st.info.
DifferenceColumn(historical_rate, current_rate) ==
    IF historical_rate # None /\ current_rate # None
    THEN [kind |-> "metric", rate_difference |-> current_rate - historical_rate]
    ELSE [kind |-> "info"]

\* Mutant of CostSection: `or` for `and` in the condition.
CostSection_or(historical_rate, current_rate) ==
    IF historical_rate # None \/ current_rate # None
    THEN [kind |-> "metrics",
          debt_amount_billions |-> debt_amount_billions,
          historical_rate |-> historical_rate,
          current_rate |-> current_rate,
          historical_interest_cost |-> interest_cost(debt_amount, historical_rate),
          current_interest_cost |-> interest_cost(debt_amount, current_rate),
          additional_cost |-> interest_cost(debt_amount, current_rate)
                              - interest_cost(debt_amount, historical_rate),
          delta_color |-> "normal"]
    ELSE [kind |-> "warning"]

\* The interest cost section: the three cost metrics, or st.warning.
CostSection(historical_rate, current_rate) ==
    IF historical_rate # None /\ current_rate # None
    THEN LET historical_interest_cost == interest_cost(debt_amount, historical_rate)
             current_interest_cost == interest_cost(debt_amount, current_rate)
             additional_cost == additional(current_interest_cost, historical_interest_cost)
         IN  [kind |-> "metrics",
              debt_amount_billions |-> debt_amount_billions,
              historical_rate |-> historical_rate,
              current_rate |-> current_rate,
              historical_interest_cost |-> historical_interest_cost,
              current_interest_cost |-> current_interest_cost,
              additional_cost |-> additional_cost,
              delta_color |-> delta_color(additional_cost)]
    ELSE [kind |-> "warning"]

EmptyPage ==
    [col1 |-> Blank, col2 |-> Blank, col3 |-> Blank, cost |-> Blank, errors |-> {}]

\* A rerun of the script from its top, with the widgets' values.
BeginRun ==
    /\ pc' = "hist"
    /\ historical' = NoneNone
    /\ current' = NoneNone
    /\ page' = EmptyPage

\* The user picks a maturity in the selectbox.
SelectMaturity(label) ==
    /\ pc = "idle"
    /\ label \in { Options[i] : i \in 1..Len(Options) }
    /\ selected_maturity_name' = label
    /\ BeginRun
    /\ UNCHANGED <<envvars, cache, last_call, debt_amount_billions>>

\* The user types an amount in the number_input.
EnterDebt(typed) ==
    /\ pc = "idle"
    /\ debt_amount_billions' = number_input(debt_amount_billions, typed)
    /\ BeginRun
    /\ UNCHANGED <<envvars, cache, last_call, selected_maturity_name>>

\* historical_rate, historical_rate_date = get_fred_rate(fred,
\* selected_series_id, HISTORICAL_DATE), then column 1.
FetchHistorical ==
    /\ pc = "hist"
    /\ CachedCall("get_fred_rate", selected_series_id, HISTORICAL_DATE)
    /\ IF last_call'.uncaught
       THEN /\ pc' = "crashed"
            /\ UNCHANGED <<historical, page>>
       ELSE /\ historical' = last_call'.ret
            /\ page' = [page EXCEPT !.col1 = RateColumn(last_call'.ret),
                                    !.errors = IF last_call'.error
                                               THEN @ \cup {"get_fred_rate"} ELSE @]
            /\ pc' = "cur"
    /\ UNCHANGED <<envvars, selected_maturity_name, debt_amount_billions, current>>

\* current_rate, current_rate_date = get_current_fred_rate(fred,
\* selected_series_id), then column 2.
FetchCurrent ==
    /\ pc = "cur"
    /\ CachedCall("get_current_fred_rate", selected_series_id, None)
    /\ IF last_call'.uncaught
       THEN /\ pc' = "crashed"
            /\ UNCHANGED <<current, page>>
       ELSE /\ current' = last_call'.ret
            /\ page' = [page EXCEPT !.col2 = RateColumn(last_call'.ret),
                                    !.errors = IF last_call'.error
                                               THEN @ \cup {"get_current_fred_rate"} ELSE @]
            /\ pc' = "diff"
    /\ UNCHANGED <<envvars, selected_maturity_name, debt_amount_billions, historical>>

\* Column 3.
ShowDifference ==
    /\ pc = "diff"
    /\ page' = [page EXCEPT !.col3 = DifferenceColumn(historical[1], current[1])]
    /\ pc' = "cost"
    /\ UNCHANGED <<envvars, cache, last_call, selected_maturity_name,
                   debt_amount_billions, historical, current>>

\* The interest cost calculation; the script ends.
ShowCost ==
    /\ pc = "cost"
    /\ page' = [page EXCEPT !.cost = CostSection(historical[1], current[1])]
    /\ pc' = "done"
    /\ UNCHANGED <<envvars, cache, last_call, selected_maturity_name,
                   debt_amount_billions, historical, current>>

\* The script has ended (or an exception has stopped it) and its locals are
\* gone; the page it built stays until the next rerun replaces it, and
\* nothing reads it.
Settle ==
    /\ pc \in {"done", "crashed"}
    /\ pc' = "idle"
    /\ historical' = NoneNone
    /\ current' = NoneNone
    /\ page' = EmptyPage
    /\ last_call' = NoCall
    /\ UNCHANGED <<envvars, cache, selected_maturity_name, debt_amount_billions>>

\* ------------------------------------------------------ the environment
\* The entries of the cache whose series is in `series` are no longer known
\* to be what the remote would answer now.
Stale(series) ==
    [k \in DOMAIN cache |->
        IF k[2] \in series THEN [cache[k] EXCEPT !.fresh = FALSE] ELSE cache[k]]

\* The date of the next observation of a series: the day after its last
\* one, the first being HISTORICAL_DATE.
NextDate(series_id) ==
    IF remote[series_id] = <<>>
    THEN HISTORICAL_DATE
    ELSE remote[series_id][Len(remote[series_id])].date + 1

\* The remote publishes the next observation of a series, between two runs.
Publish(series_id, value) ==
    /\ pc = "idle"
    /\ published < MaxPublish
    /\ published' = published + 1
    /\ remote' = [remote EXCEPT ![series_id] =
                    Append(@, [date |-> NextDate(series_id), value |-> value])]
    /\ cache' = Stale({series_id})
    /\ UNCHANGED <<down, now, last_call, appvars>>

\* The remote starts failing, between two runs or between the two lookups
\* of a run, and recovers between two runs.
Fail ==
    /\ pc \in {"idle", "cur"}
    /\ ~down
    /\ down' = TRUE
    /\ cache' = Stale(SeriesIds)
    /\ UNCHANGED <<remote, now, published, last_call, appvars>>

Recover ==
    /\ pc = "idle"
    /\ down
    /\ down' = FALSE
    /\ cache' = Stale(SeriesIds)
    /\ UNCHANGED <<remote, now, published, last_call, appvars>>

\* Time passes; the entries that reached their ttl are evicted (an expired
\* entry is never served).
Tick ==
    /\ pc = "idle"
    /\ now < MaxTicks * TICK
    /\ now' = now + TICK
    /\ cache' = [k \in { j \in DOMAIN cache : ~Expired(cache[j].at, Ttl(j[1]), now') }
                    |-> cache[k]]
    /\ UNCHANGED <<remote, down, published, last_call, appvars>>

\* ------------------------------------------------------- specification
\* The first run of the script, with the widgets at their defaults.
Init ==
    /\ remote = [s \in SeriesIds |-> <<>>]
    /\ down = FALSE
    /\ now = 0
    /\ published = 0
    /\ cache = EmptyCache
    /\ last_call = NoCall
    /\ selected_maturity_name = Options[DEFAULT_INDEX + 1]
    /\ debt_amount_billions = DEFAULT_VALUE
    /\ pc = "hist"
    /\ historical = NoneNone
    /\ current = NoneNone
    /\ page = EmptyPage

Next ==
    \/ \E label \in PickLabels : SelectMaturity(label)
    \/ \E typed \in DebtAttempts : EnterDebt(typed)
    \/ FetchHistorical
    \/ FetchCurrent
    \/ ShowDifference
    \/ ShowCost
    \/ Settle
    \/ \E s \in PickSeries, v \in Published : Publish(s, v)
    \/ Fail
    \/ Recover
    \/ Tick

Spec == Init /\ [][Next]_vars

\* ------------------------------------------- the resolver on its own
\* get_fred_rate called with any target date on any content of a series:
\* each day of the span holds a rate, a missing value or no observation.
ResolverSeries == "DGS10"
ResolverFirstDay == HISTORICAL_DATE - LOOKBACK_DAYS - 1
ResolverDays == ResolverFirstDay .. (ResolverFirstDay + MaxSpan)
ResolverTargets == {HISTORICAL_DATE - 1, HISTORICAL_DATE}
ResolverValues == {None, NaN, 420}

\* The observations of days first..last under `content` (None: no
\* observation that day), in date order.
RECURSIVE SeriesOf(_, _, _)
SeriesOf(content, first, last) ==
    IF first > last
    THEN <<>>
    ELSE LET rest == SeriesOf(content, first + 1, last)
         IN  IF content[first] = None
             THEN rest
             ELSE <<[date |-> first, value |-> content[first]]>> \o rest

InitResolver ==
    /\ \E content \in [ResolverDays -> ResolverValues] :
          remote = [s \in SeriesIds |->
                      IF s = ResolverSeries
                      THEN SeriesOf(content, ResolverFirstDay, ResolverFirstDay + MaxSpan)
                      ELSE <<>>]
    /\ down = FALSE
    /\ now = 0
    /\ published = 0
    /\ cache = EmptyCache
    /\ last_call = NoCall
    /\ selected_maturity_name = Options[DEFAULT_INDEX + 1]
    /\ debt_amount_billions = DEFAULT_VALUE
    /\ pc = "idle"
    /\ historical = NoneNone
    /\ current = NoneNone
    /\ page = EmptyPage

\* get_fred_rate(fred, series_id, date)
Resolve(date) ==
    /\ CachedCall("get_fred_rate", ResolverSeries, date)
    /\ UNCHANGED <<envvars, appvars>>

NextResolver == \E date \in ResolverTargets : Resolve(date)

SpecResolver == InitResolver /\ [][NextResolver]_vars

\* ================================================================ claims
\* The observations the remote holds for the series of the latest call, and
\* those of them a call for `date` is to consider: dated within the
\* LOOKBACK_DAYS before `date`, not missing.
Held == { remote[last_call.series_id][i] : i \in 1..Len(remote[last_call.series_id]) }
Usable(date) ==
    { o \in Held : o.date >= date - LOOKBACK_DAYS /\ o.date <= date /\ o.value # NaN }
CalledHist == last_call.fn = "get_fred_rate"
Sign(x) == IF x > 0 THEN 1 ELSE IF x < 0 THEN -1 ELSE 0

\* C1: whenever get_fred_rate returns a rate, the date it returns with it is
\* a date at or before the target date of the call.
C1_NoFutureObservation ==
    (CalledHist /\ last_call.ret[1] # None)
        => (last_call.ret[2] # None /\ last_call.ret[2] <= last_call.date)

\* C1 witness: a rate was returned for a target date while the series holds a
\* later observation that is not missing.
C1_Witness ==
    /\ CalledHist
    /\ last_call.ret[1] # None
    /\ \E o \in Held : o.date > last_call.date /\ o.value # NaN

\* C4: when the window of a call holds an observation that is not missing,
\* get_fred_rate returns the value and the date of the latest such one.
C4_LatestInWindow ==
    (CalledHist /\ Usable(last_call.date) # {})
        => \E o \in Usable(last_call.date) :
              /\ \A p \in Usable(last_call.date) : p.date <= o.date
              /\ last_call.ret = <<o.value, o.date>>

\* C4 witness: the observation returned is followed in the window by a
\* missing one and preceded in it by another that is not missing.
C4_Witness ==
    /\ CalledHist
    /\ last_call.ret[1] # None
    /\ \E o \in Held : /\ o.value = NaN
                       /\ o.date > last_call.ret[2]
                       /\ o.date <= last_call.date
    /\ \E o \in Usable(last_call.date) : o.date < last_call.ret[2]

\* C5: when every observation of the window is missing, or it has none,
\* get_fred_rate returns (None, None), whatever older observations exist.
C5_NotFoundWhenWindowMissing ==
    (CalledHist /\ Usable(last_call.date) = {}) => last_call.ret = NoneNone

\* C5 witness: (None, None) was returned while the window holds a missing
\* observation and the series an older one that is not missing.
C5_Witness ==
    /\ CalledHist
    /\ last_call.ret = NoneNone
    /\ \E o \in Held : /\ o.value = NaN
                       /\ o.date >= last_call.date - LOOKBACK_DAYS
                       /\ o.date <= last_call.date
    /\ \E o \in Held : o.date < last_call.date - LOOKBACK_DAYS /\ o.value # NaN

\* What the run has fetched so far.
HistFetched == pc \in {"cur", "diff", "cost", "done"}
BothFetched == pc \in {"diff", "cost", "done"}
Shows(column, rate_and_date) ==
    column = [kind |-> "metric", rate |-> rate_and_date[1], date |-> rate_and_date[2]]

\* C2: a resolver whose request to the remote fails returns a value other
\* than the one it returns for a window without an observation.
C2_FailureDistinctFromNotFound ==
    (last_call.raised /\ ~last_call.hit) => last_call.ret # LastOrNone(<<>>)

C6_AdditionalCostSign ==
    page.cost.kind = "metrics" =>
        /\ page.cost.additional_cost
             = page.cost.current_interest_cost - page.cost.historical_interest_cost
        /\ Sign(page.cost.additional_cost) = Sign(current[1] - historical[1])
        /\ page.cost.debt_amount_billions >= 0

\* C6 witness: an additional cost below zero is displayed, the current rate
\* being below the historical one.
C6_Witness ==
    /\ page.cost.kind = "metrics"
    /\ page.cost.additional_cost < 0
    /\ current[1] < historical[1]

\* C7: no run stops on an exception, and once both lookups are made each rate
\* that was obtained is displayed in its column, whatever the outcome of the
\* other lookup; after the first lookup its rate is displayed already.
C7_LegsIndependent ==
    /\ pc # "crashed"
    /\ (HistFetched /\ historical[1] # None) => Shows(page.col1, historical)
    /\ (BothFetched /\ current[1] # None) => Shows(page.col2, current)
    /\ (BothFetched /\ historical[1] = None) => page.col1 = [kind |-> "error"]
    /\ (BothFetched /\ current[1] = None) => page.col2 = [kind |-> "error"]

\* C7 witness: the run ended with the current rate displayed although the
\* request of the historical lookup failed.
C7_Witness ==
    /\ pc = "done"
    /\ "get_fred_rate" \in page.errors
    /\ historical = NoneNone
    /\ current[1] # None
    /\ Shows(page.col2, current)

\* C8: the cost figures are displayed exactly when both rates were obtained;
\* with no historical rate the run ends with none of them displayed, with the
\* warning in their place and the error in column 1, and it does not crash.
C8_CostOnlyWithBothRates ==
    /\ pc # "crashed"
    /\ pc = "done" =>
        /\ page.cost.kind = "metrics" <=> (historical[1] # None /\ current[1] # None)
        /\ page.cost.kind \in {"metrics", "warning"}
        /\ historical[1] = None =>
              /\ page.cost = [kind |-> "warning"]
              /\ page.col1 = [kind |-> "error"]
              /\ page.col3 = [kind |-> "info"]
    /\ pc # "done" => page.cost = Blank

\* C8 witness: the run ended with the warning, the window of the historical
\* lookup holding nothing but the current rate obtained.
C8_Witness ==
    /\ pc = "done"
    /\ historical = NoneNone
    /\ "get_fred_rate" \notin page.errors
    /\ current[1] # None
    /\ page.cost = [kind |-> "warning"]

C10_CostFormula ==
    page.cost.kind = "metrics" =>
        LET principal == (page.cost.debt_amount_billions * BILLION) \div 10
        IN  /\ principal * 10 = page.cost.debt_amount_billions * BILLION
            /\ page.cost.historical_interest_cost * PERCENT * 100 = principal * historical[1]
            /\ page.cost.current_interest_cost * PERCENT * 100 = principal * current[1]
            /\ (historical[1] = 420 /\ current[1] = 450 /\ principal = 100000) =>
                  /\ page.cost.historical_interest_cost = 4200
                  /\ page.cost.current_interest_cost = 4500
                  /\ page.cost.additional_cost = 300

\* C10 witness: the scenario of the 10-year yield: 4.20 % on 2025-04-01,
\* 4.50 % now, 100 billion.
C10_Witness ==
    /\ pc = "done"
    /\ selected_maturity_name = "10-Year Treasury"
    /\ historical = <<420, HISTORICAL_DATE>>
    /\ current[1] = 450
    /\ debt_amount_billions = 1000
    /\ page.cost.kind = "metrics"
    /\ page.cost.additional_cost = 300

====
